---- MODULE Spec2Model ----
(***************************************************************************)
(* A model of skills/tts/scripts/minmax_tts.py: one run of main(), from    *)
(* the parsed command line to the exit code.  Strings whose characters     *)
(* matter (the text, the audio field) are sequences of one-character       *)
(* strings; bytes are sequences of integers in 0..255.                     *)
(***************************************************************************)
EXTENDS Integers, Sequences, FiniteSets, TLC

VARIABLES
    cli,          \* the command line and environment of this run
    pc,           \* position of main()
    text,         \* read_text's result
    payload,      \* build_payload's result
    endpoints,    \* call_minimaxi: the attempt list
    idx,          \* call_minimaxi: index of the next endpoint to try
    last_error,   \* call_minimaxi: last_error
    resp,         \* the parsed response returned by call_minimaxi
    origin,       \* the bytes the provider encoded into resp, when known
    content,      \* save_audio: the bytes to write
    decodeLog,    \* decode_audio_field: the decoders attempted, in order
    fs,           \* the destination: parent directory and file
    fs0,          \* the destination as it was when the run started
    net,          \* the network calls issued so far, in order
    stdout,       \* objects printed to standard output
    stderr,       \* objects printed to standard error
    exit_code,    \* main's return value, -1 while running
    error,        \* the exception being propagated to main's handler
    raw           \* read_text: the resolved text before it is trimmed

vars == <<cli, pc, text, payload, endpoints, idx, last_error, resp, origin,
          content, decodeLog, fs, fs0, net, stdout, stderr, exit_code, error, raw>>

(***************************************************************************)
(* Bounds.                                                                 *)
(***************************************************************************)
MaxTextLen == 2
MaxAudioLen == 4
MaxBytesLen == 2
MaxTones == 2

(***************************************************************************)
(* Bounded sequences.                                                      *)
(***************************************************************************)
SeqUpTo(S, n) == UNION {[1..k -> S] : k \in 0..n}

TextChars == {" ", "a"}
AudioChars == {"0", "a", "F", "h", "=", " ", ":"}
ByteVals == {0, 10, 175, 255}

TextStrings == SeqUpTo(TextChars, MaxTextLen)
AudioStrings == SeqUpTo(AudioChars, MaxAudioLen)
ByteStrings == SeqUpTo(ByteVals, MaxBytesLen)

(***************************************************************************)
(* str.strip(): whitespace removed at both ends.                           *)
(***************************************************************************)
IsSpace(c) == c = " "

RECURSIVE lstrip(_)
lstrip(s) == IF s # <<>> /\ IsSpace(Head(s)) THEN lstrip(Tail(s)) ELSE s

RECURSIVE rstrip(_)
rstrip(s) ==
    IF s # <<>> /\ IsSpace(s[Len(s)]) THEN rstrip(SubSeq(s, 1, Len(s) - 1)) ELSE s

strip(s) == rstrip(lstrip(s))

(***************************************************************************)
(* bytes.fromhex(): ASCII whitespace is skipped between bytes, then two    *)
(* hex digits (either case) make one byte; anything else is a ValueError.  *)
(***************************************************************************)
HexDigits ==
    <<"0", "1", "2", "3", "4", "5", "6", "7", "8", "9", "a", "b", "c", "d", "e", "f">>

HexUpper ==
    <<"0", "1", "2", "3", "4", "5", "6", "7", "8", "9", "A", "B", "C", "D", "E", "F">>

IsHexDigit(c) == \E k \in 1..16 : HexDigits[k] = c \/ HexUpper[k] = c

HexVal(c) == (CHOOSE k \in 1..16 : HexDigits[k] = c \/ HexUpper[k] = c) - 1

Decoded(b) == [ok |-> TRUE, bytes |-> b]
DecodeError == [ok |-> FALSE, bytes |-> <<>>]

RECURSIVE fromhex_from(_, _)
fromhex_from(s, out) ==
    LET t == lstrip(s) IN
    IF t = <<>> THEN Decoded(out)
    ELSE IF Len(t) >= 2 /\ IsHexDigit(t[1]) /\ IsHexDigit(t[2])
         THEN fromhex_from(SubSeq(t, 3, Len(t)),
                           Append(out, 16 * HexVal(t[1]) + HexVal(t[2])))
         ELSE DecodeError

fromhex(s) == fromhex_from(s, <<>>)

(***************************************************************************)
(* bytes.hex(): two lower-case digits per byte.                            *)
(***************************************************************************)
RECURSIVE hex(_)
hex(b) ==
    IF b = <<>> THEN <<>>
    ELSE <<HexDigits[(Head(b) \div 16) + 1], HexDigits[(Head(b) % 16) + 1]>>
         \o hex(Tail(b))

(***************************************************************************)
(* base64.b64decode() with validate=False, as binascii.a2b_base64 does it: *)
(* characters outside the alphabet are discarded, a pad that completes a   *)
(* quad ends the input, and a quad left open at the end is an error.       *)
(***************************************************************************)
B64Alphabet ==
    <<"A", "B", "C", "D", "E", "F", "G", "H", "I", "J", "K", "L", "M", "N", "O", "P",
      "Q", "R", "S", "T", "U", "V", "W", "X", "Y", "Z", "a", "b", "c", "d", "e", "f",
      "g", "h", "i", "j", "k", "l", "m", "n", "o", "p", "q", "r", "s", "t", "u", "v",
      "w", "x", "y", "z", "0", "1", "2", "3", "4", "5", "6", "7", "8", "9", "+", "/">>

IsB64Char(c) == \E k \in 1..64 : B64Alphabet[k] = c

B64Val(c) == (CHOOSE k \in 1..64 : B64Alphabet[k] = c) - 1

RECURSIVE a2b_base64(_, _, _, _, _)
a2b_base64(s, quad_pos, leftchar, pads, out) ==
    IF s = <<>>
    THEN IF quad_pos = 0 THEN Decoded(out) ELSE DecodeError
    ELSE LET c == Head(s)
             rest == Tail(s)
         IN  IF c = "="
             THEN IF quad_pos >= 2 /\ quad_pos + pads + 1 >= 4
                  THEN Decoded(out)
                  ELSE a2b_base64(rest, quad_pos, leftchar,
                                  IF quad_pos >= 2 THEN pads + 1 ELSE pads, out)
             ELSE IF ~IsB64Char(c)
             THEN a2b_base64(rest, quad_pos, leftchar, pads, out)
             ELSE LET v == B64Val(c) IN
                  CASE quad_pos = 0 -> a2b_base64(rest, 1, v, 0, out)
                    [] quad_pos = 1 ->
                         a2b_base64(rest, 2, v % 16, 0,
                                    Append(out, leftchar * 4 + (v \div 16)))
                    [] quad_pos = 2 ->
                         a2b_base64(rest, 3, v % 4, 0,
                                    Append(out, leftchar * 16 + (v \div 4)))
                    [] quad_pos = 3 ->
                         a2b_base64(rest, 0, 0, 0, Append(out, leftchar * 64 + v))

b64decode(s) == a2b_base64(s, 0, 0, 0, <<>>)

(***************************************************************************)
(* decode_audio_field: hex first, base64 when hex raised ValueError.  The  *)
(* result carries the decoders that ran.                                   *)
(***************************************************************************)
(* Variant: base64 first, hex when base64 failed. *)
decode_audio_field_base64_first(audio_value) ==
    LET b == b64decode(audio_value) IN
    IF b.ok
    THEN [ok |-> TRUE, bytes |-> b.bytes, tried |-> <<"base64">>]
    ELSE LET h == fromhex(audio_value) IN
         [ok |-> h.ok, bytes |-> h.bytes, tried |-> <<"base64", "hex">>]

decode_audio_field(audio_value) ==
    LET h == fromhex(audio_value) IN
    IF h.ok
    THEN [ok |-> TRUE, bytes |-> h.bytes, tried |-> <<"hex">>]
    ELSE LET b == b64decode(audio_value) IN
         [ok |-> b.ok, bytes |-> b.bytes, tried |-> <<"hex", "base64">>]

(***************************************************************************)
(* The command line.  An option that takes a value is either absent or     *)
(* given with a value; parse_args turns an absent option into its default. *)
(***************************************************************************)
NotGiven(d) == [given |-> FALSE, val |-> d]
Given(v) == [given |-> TRUE, val |-> v]
Option(S, d) == {NotGiven(d)} \cup {Given(v) : v \in S}

None == [none |-> TRUE, val |-> <<>>]
NoneNum == [none |-> TRUE, val |-> 0]
Some(v) == [none |-> FALSE, val |-> v]

DEFAULT_ENDPOINT == "https://api.minimaxi.com/v1/t2a_v2"
DEFAULT_BACKUP_ENDPOINT == "https://api-bj.minimaxi.com/v1/t2a_v2"
DEFAULT_MODEL == "speech-2.8-hd"
MalformedEndpoint == "api.minimaxi.com/v1/t2a_v2"

parse_args(c) ==
    [text |-> IF c.text.given THEN Some(c.text.val) ELSE None,
     text_file |-> IF c.text_file.given THEN Some(c.text_file.val) ELSE None,
     voice_id |-> c.voice_id,
     output |-> c.output,
     format |-> "mp3",
     model |-> DEFAULT_MODEL,
     sample_rate |-> 32000,
     bitrate |-> 128000,
     channel |-> 1,
     speed |-> 1,
     volume |-> 1,
     pitch |-> 0,
     emotion |-> IF c.emotion.given THEN c.emotion.val ELSE "",
     language_boost |-> IF c.language_boost.given THEN c.language_boost.val ELSE "",
     pronunciation_tone |-> c.pronunciation_tone,
     output_format |-> c.output_format,
     subtitle_enable |-> FALSE,
     aigc_watermark |-> FALSE,
     voice_modify_pitch |->
         IF c.voice_modify_pitch.given THEN Some(c.voice_modify_pitch.val) ELSE NoneNum,
     voice_modify_intensity |->
         IF c.voice_modify_intensity.given
         THEN Some(c.voice_modify_intensity.val) ELSE NoneNum,
     voice_modify_timbre |->
         IF c.voice_modify_timbre.given THEN Some(c.voice_modify_timbre.val) ELSE NoneNum,
     endpoint |-> c.endpoint,
     backup_endpoint |-> c.backup_endpoint,
     api_key |-> c.api_key,
     timeout |-> 60]

args == parse_args(cli)

(* bool(x) of an optional string: None and the empty string are both false. *)
truthy(o) == ~o.none /\ o.val # <<>>

(***************************************************************************)
(* read_text, given what reading the text file yields.                     *)
(***************************************************************************)
FileMissing == [ok |-> FALSE, data |-> <<>>]
FileWith(d) == [ok |-> TRUE, data |-> d]
FileReads == {FileMissing} \cup {FileWith(d) : d \in TextStrings}

TextResult(e, r, t) == [err |-> e, raw |-> r, text |-> t]

read_text(a, file) ==
    IF truthy(a.text) = truthy(a.text_file)
    THEN TextResult("exactly_one", None, <<>>)
    ELSE IF truthy(a.text)
    THEN IF strip(a.text.val) = <<>>
         THEN TextResult("empty_text", Some(a.text.val), <<>>)
         ELSE TextResult("none", Some(a.text.val), strip(a.text.val))
    ELSE IF ~file.ok
    THEN TextResult("read_file", None, <<>>)
    ELSE IF strip(file.data) = <<>>
         THEN TextResult("empty_text", Some(file.data), <<>>)
         ELSE TextResult("none", Some(file.data), strip(file.data))

(***************************************************************************)
(* build_payload.  A dict is a function on its keys.                       *)
(***************************************************************************)
EmptyDict == [k \in {} |-> 0]

(* Variant: a value of 0 is taken for an absent one. *)
voice_modify_truthy(a) ==
    LET vm1 == IF ~a.voice_modify_pitch.none /\ a.voice_modify_pitch.val # 0
               THEN ("pitch" :> a.voice_modify_pitch.val) ELSE EmptyDict
        vm2 == IF ~a.voice_modify_intensity.none /\ a.voice_modify_intensity.val # 0
               THEN ("intensity" :> a.voice_modify_intensity.val) @@ vm1 ELSE vm1
    IN  IF ~a.voice_modify_timbre.none /\ a.voice_modify_timbre.val # 0
        THEN ("timbre" :> a.voice_modify_timbre.val) @@ vm2 ELSE vm2

(* Lines 127-133. *)
voice_modify(a) ==
    LET vm1 == IF ~a.voice_modify_pitch.none
               THEN ("pitch" :> a.voice_modify_pitch.val) ELSE EmptyDict
        vm2 == IF ~a.voice_modify_intensity.none
               THEN ("intensity" :> a.voice_modify_intensity.val) @@ vm1 ELSE vm1
    IN  IF ~a.voice_modify_timbre.none
        THEN ("timbre" :> a.voice_modify_timbre.val) @@ vm2 ELSE vm2

build_payload(t, a) ==
    LET vs0 == [voice_id |-> a.voice_id, speed |-> a.speed,
                vol |-> a.volume, pitch |-> a.pitch]
        vs == IF a.emotion # "" THEN ("emotion" :> a.emotion) @@ vs0 ELSE vs0
        p0 == [model |-> a.model,
               text |-> t,
               stream |-> FALSE,
               voice_setting |-> vs,
               audio_setting |-> [sample_rate |-> a.sample_rate, bitrate |-> a.bitrate,
                                  format |-> a.format, channel |-> a.channel],
               subtitle_enable |-> a.subtitle_enable,
               output_format |-> a.output_format,
               aigc_watermark |-> a.aigc_watermark]
        p1 == IF a.language_boost # ""
              THEN ("language_boost" :> a.language_boost) @@ p0 ELSE p0
        p2 == IF a.pronunciation_tone # <<>>
              THEN ("pronunciation_dict" :> [tone |-> a.pronunciation_tone]) @@ p1
              ELSE p1
        vm3 == voice_modify(a)
    IN  IF DOMAIN vm3 # {} THEN ("voice_modify" :> vm3) @@ p2 ELSE p2

(***************************************************************************)
(* call_minimaxi: the attempt list, and what one POST can yield.           *)
(***************************************************************************)
(* Variants: the backup is never added; the backup is added even when it  *)
(* equals the primary.                                                     *)
attempt_list_primary_only(a) == <<a.endpoint>>

attempt_list_no_dedup(a) ==
    IF a.backup_endpoint # "" THEN <<a.endpoint, a.backup_endpoint>> ELSE <<a.endpoint>>

attempt_list(a) ==
    IF a.backup_endpoint # "" /\ a.backup_endpoint # a.endpoint
    THEN <<a.endpoint, a.backup_endpoint>>
    ELSE <<a.endpoint>>

(* urllib.request.Request raises ValueError for a URL without a scheme. *)
HasScheme(url) == url \in {DEFAULT_ENDPOINT, DEFAULT_BACKUP_ENDPOINT}

(* Variant: the request is sent whether or not there is a key. *)
has_api_key_unchecked(a) == TRUE

(* Line 141. *)
has_api_key(a) == a.api_key # ""

NoError == [kind |-> "none", at |-> ""]
Exc(kind, at) == [kind |-> kind, at |-> at]

(* A parsed response.  base_resp, data.audio and extra_info may each be    *)
(* missing or of another JSON type than the client expects.                *)
BaseAbsent == [kind |-> "absent", has_code |-> FALSE, status_code |-> 0]
BaseNull == [kind |-> "null", has_code |-> FALSE, status_code |-> 0]
BaseNoCode == [kind |-> "dict", has_code |-> FALSE, status_code |-> 0]
BaseCode(n) == [kind |-> "dict", has_code |-> TRUE, status_code |-> n]

AudioAbsent == [kind |-> "absent", val |-> <<>>]
AudioOther == [kind |-> "other", val |-> <<>>]
AudioStr(s) == [kind |-> "str", val |-> s]

NoResp ==
    [kind |-> "none", base_resp |-> BaseAbsent, audio |-> AudioAbsent,
     extra_info |-> "absent", trace_id |-> "absent"]
NonDictResp == [NoResp EXCEPT !.kind = "nondict"]
Resp(b, a, e, t) ==
    [kind |-> "dict", base_resp |-> b, audio |-> a, extra_info |-> e, trace_id |-> t]

Unknown == [known |-> FALSE, bytes |-> <<>>]
Known(b) == [known |-> TRUE, bytes |-> b]

(* urlopen raised HTTPError, raised another exception (URLError, timeout), *)
(* or answered with a body that is not UTF-8 JSON; or a parsed response.   *)
Failed(k) == [ok |-> FALSE, err |-> k, resp |-> NoResp, origin |-> Unknown]
Returned(r, o) == [ok |-> TRUE, err |-> "none", resp |-> r, origin |-> o]
TransportFailures == {Failed("HTTPError"), Failed("URLError"), Failed("BadBody")}

(* Variant: a response with a non-zero status code counts as a failed attempt. *)
returns_unless_status(o) ==
    o.ok /\ ~(o.resp.kind = "dict" /\ o.resp.base_resp.has_code
                /\ o.resp.base_resp.status_code # 0)

(* The loop returns from the first attempt that yields a parsed response. *)
returns(o) == o.ok

(* The exception class line 160 or line 163 catches. *)
caught_as(o) == IF o.err = "HTTPError" THEN "HTTP" ELSE "Request failed"

(***************************************************************************)
(* save_audio: the status code, with its default, and the audio field.     *)
(***************************************************************************)
(* Variant: a missing status code is not taken for success. *)
status_code_required(r) == IF r.base_resp.has_code THEN r.base_resp.status_code ELSE -1

status_code(r) == IF r.base_resp.has_code THEN r.base_resp.status_code ELSE 0

(* "not audio" *)
audio_missing(r) == r.audio.kind = "absent" \/ (r.audio.kind = "str" /\ r.audio.val = <<>>)

(* A string urlopen accepts: it starts with a scheme, written "h:" here. *)
IsUrl(s) == Len(s) >= 2 /\ s[1] = "h" /\ s[2] = ":"

NoFile == [exists |-> FALSE, data |-> <<>>]
File(d) == [exists |-> TRUE, data |-> d]

(* Variant: the destination is opened for writing before the audio is there. *)
mkdir_parents_and_open(f) == [dir |-> TRUE, file |-> File(<<>>)]

(* output_path.parent.mkdir(parents=True, exist_ok=True) *)
mkdir_parents(f) == [f EXCEPT !.dir = TRUE]

(* output_path.write_bytes(content): open for writing truncates; the write *)
(* may fail before opening (the file is as it was) or after (it is empty). *)
WriteOutcomes == {"ok", "open_failed", "write_failed"}

write_bytes(f, c, w) ==
    CASE w = "ok" -> [f EXCEPT !.file = File(c)]
      [] w = "open_failed" -> f
      [] w = "write_failed" -> [f EXCEPT !.file = File(<<>>)]

(* What the GET of the audio URL yields: an error, or the body. *)
DownloadBodies == {<<>>, <<10>>, <<0, 255>>}
Downloads == {DecodeError} \cup {Decoded(b) : b \in DownloadBodies}

(***************************************************************************)
(* The steps of main().                                                    *)
(***************************************************************************)
Raise(kind, at) == pc' = "except" /\ error' = Exc(kind, at)

main_read_text ==
    /\ pc = "read_text"
    /\ \E file \in FileReads :
         LET r == read_text(args, file) IN
         /\ raw' = r.raw
         /\ text' = r.text
         /\ IF r.err # "none"
            THEN Raise(r.err, "")
            ELSE pc' = "build_payload" /\ error' = error
    /\ UNCHANGED <<cli, payload, endpoints, idx, last_error, resp, origin, content,
                   decodeLog, fs, fs0, net, stdout, stderr, exit_code>>

main_build_payload ==
    /\ pc = "build_payload"
    /\ payload' = build_payload(text, args)
    /\ pc' = "call_minimaxi"
    /\ UNCHANGED <<cli, text, endpoints, idx, last_error, resp, origin, content,
                   decodeLog, fs, fs0, net, stdout, stderr, exit_code, error, raw>>

call_minimaxi_begin ==
    /\ pc = "call_minimaxi"
    /\ IF ~has_api_key(args)
       THEN Raise("missing_api_key", "") /\ UNCHANGED <<endpoints, idx>>
       ELSE /\ endpoints' = attempt_list(args)
            /\ idx' = 1
            /\ pc' = "call_loop"
            /\ error' = error
    /\ UNCHANGED <<cli, text, payload, last_error, resp, origin, content,
                   decodeLog, fs, fs0, net, stdout, stderr, exit_code, raw>>

(* One iteration of the loop of lines 154-164, or the raise of line 166. *)
call_minimaxi_attempt(Outcomes) ==
    /\ pc = "call_loop"
    /\ IF idx > Len(endpoints)
       THEN /\ Raise(last_error.kind, last_error.at)
            /\ UNCHANGED <<idx, last_error, resp, origin, net>>
       ELSE IF ~HasScheme(endpoints[idx])
       THEN /\ Raise("bad_url", endpoints[idx])
            /\ UNCHANGED <<idx, last_error, resp, origin, net>>
       ELSE \E o \in Outcomes :
            /\ net' = Append(net, [method |-> "POST", url |-> endpoints[idx],
                                   ok |-> o.ok, resp |-> o.resp, body |-> <<>>])
            /\ IF returns(o)
               THEN /\ resp' = o.resp
                    /\ origin' = o.origin
                    /\ pc' = "save_audio"
                    /\ UNCHANGED <<idx, last_error, error>>
               ELSE /\ last_error' = Exc(caught_as(o), endpoints[idx])
                    /\ idx' = idx + 1
                    /\ UNCHANGED <<pc, resp, origin, error>>
    /\ UNCHANGED <<cli, text, payload, endpoints, content, decodeLog, fs, fs0,
                   stdout, stderr, exit_code, raw>>

(* Lines 177-192: the status check, the audio field, the parent directory. *)
save_audio_check ==
    /\ pc = "save_audio"
    /\ IF resp.kind # "dict" \/ resp.base_resp.kind = "null"
       THEN Raise("AttributeError", "") /\ fs' = fs
       ELSE IF status_code(resp) # 0
       THEN Raise("status", "") /\ fs' = fs
       ELSE IF audio_missing(resp)
       THEN Raise("missing_audio", "") /\ fs' = fs
       ELSE \E made \in BOOLEAN :
            IF made \/ fs.dir
            THEN fs' = mkdir_parents(fs) /\ pc' = "save_fetch" /\ error' = error
            ELSE Raise("mkdir", "") /\ fs' = fs
    /\ UNCHANGED <<cli, text, payload, endpoints, idx, last_error, resp, origin,
                   content, decodeLog, fs0, net, stdout, stderr, exit_code, raw>>

(* Lines 194-198: the download, or the decode. *)
save_audio_fetch ==
    /\ pc = "save_fetch"
    /\ IF args.output_format = "url"
       THEN /\ decodeLog' = decodeLog
            /\ IF resp.audio.kind # "str" \/ ~IsUrl(resp.audio.val)
               THEN Raise("bad_url", "") /\ UNCHANGED <<content, net>>
               ELSE \E d \in Downloads :
                    /\ net' = Append(net, [method |-> "GET", url |-> "audio",
                                           ok |-> d.ok, resp |-> NoResp,
                                           body |-> d.bytes])
                    /\ IF d.ok
                       THEN content' = d.bytes /\ pc' = "save_write" /\ error' = error
                       ELSE Raise("download", "") /\ content' = content
       ELSE /\ net' = net
            /\ IF resp.audio.kind # "str"
               THEN /\ Raise("TypeError", "")
                    /\ decodeLog' = <<"hex">>
                    /\ content' = content
               ELSE LET r == decode_audio_field(resp.audio.val) IN
                    /\ decodeLog' = r.tried
                    /\ IF r.ok
                       THEN content' = r.bytes /\ pc' = "save_write" /\ error' = error
                       ELSE Raise("decode", "") /\ content' = content
    /\ UNCHANGED <<cli, text, payload, endpoints, idx, last_error, resp, origin,
                   fs, fs0, stdout, stderr, exit_code, raw>>

(* Line 200. *)
save_audio_write ==
    /\ pc = "save_write"
    /\ \E w \in WriteOutcomes :
         /\ fs' = write_bytes(fs, content, w)
         /\ IF w = "ok" THEN pc' = "report" /\ error' = error ELSE Raise("write", "")
    /\ UNCHANGED <<cli, text, payload, endpoints, idx, last_error, resp, origin,
                   content, decodeLog, fs0, net, stdout, stderr, exit_code, raw>>

(* Lines 211-223. *)
result ==
    [ok |-> TRUE,
     output_path |-> args.output,
     voice_id |-> args.voice_id,
     model |-> args.model,
     format |-> args.format,
     bytes |-> Len(fs.file.data),
     trace_id |-> resp.trace_id,
     usage_characters |-> IF resp.extra_info = "dict" THEN "5" ELSE "null"]

(* Variant: the result is printed before the usage metadata is read. *)
main_report_print_first ==
    /\ pc = "report"
    /\ stdout' = Append(stdout, result)
    /\ IF resp.extra_info = "nondict"
       THEN Raise("AttributeError", "extra_info") /\ exit_code' = exit_code
       ELSE exit_code' = 0 /\ pc' = "done" /\ error' = error
    /\ UNCHANGED <<cli, text, payload, endpoints, idx, last_error, resp, origin,
                   content, decodeLog, fs, fs0, net, stderr, raw>>

main_report ==
    /\ pc = "report"
    /\ IF resp.extra_info = "nondict"
       THEN Raise("AttributeError", "extra_info") /\ UNCHANGED <<stdout, exit_code>>
       ELSE /\ stdout' = Append(stdout, result)
            /\ exit_code' = 0
            /\ pc' = "done"
            /\ error' = error
    /\ UNCHANGED <<cli, text, payload, endpoints, idx, last_error, resp, origin,
                   content, decodeLog, fs, fs0, net, stderr, raw>>

(* Lines 224-226. *)
main_except ==
    /\ pc = "except"
    /\ stderr' = Append(stderr, [ok |-> FALSE, error |-> error])
    /\ exit_code' = 1
    /\ pc' = "done"
    /\ UNCHANGED <<cli, text, payload, endpoints, idx, last_error, resp, origin,
                   content, decodeLog, fs, fs0, net, stdout, error, raw>>

(***************************************************************************)
(* The runs checked.                                                       *)
(***************************************************************************)
BaseCli ==
    [text |-> Given(<<"a">>),
     text_file |-> NotGiven(<<>>),
     voice_id |-> "voice",
     output |-> "out.mp3",
     output_format |-> "hex",
     endpoint |-> DEFAULT_ENDPOINT,
     backup_endpoint |-> "",
     api_key |-> "key",
     emotion |-> NotGiven(""),
     language_boost |-> NotGiven(""),
     pronunciation_tone |-> <<>>,
     voice_modify_pitch |-> NotGiven(0),
     voice_modify_intensity |-> NotGiven(0),
     voice_modify_timbre |-> NotGiven(0)]

TunedCli ==
    [BaseCli EXCEPT !.emotion = Given("happy"),
                    !.language_boost = Given("auto"),
                    !.pronunciation_tone = <<"tone">>,
                    !.voice_modify_pitch = Given(1)]

PathStrings == {<<>>, <<"f">>}

CmdLines ==
    {[c EXCEPT !.text = t, !.text_file = f, !.output_format = m,
               !.endpoint = e, !.backup_endpoint = b, !.api_key = k] :
        c \in {BaseCli, TunedCli},
        t \in Option(TextStrings, <<>>),
        f \in Option(PathStrings, <<>>),
        m \in {"hex", "url"},
        e \in {DEFAULT_ENDPOINT, MalformedEndpoint},
        b \in {"", DEFAULT_ENDPOINT, DEFAULT_BACKUP_ENDPOINT, MalformedEndpoint},
        k \in {"", "key"}}

OldBytes == <<1, 2, 3>>
Destinations ==
    {[dir |-> FALSE, file |-> NoFile], [dir |-> TRUE, file |-> File(OldBytes)]}

InitRun(C, D) ==
    /\ cli \in C
    /\ fs \in D
    /\ fs0 = fs
    /\ pc = "read_text"
    /\ text = <<>>
    /\ raw = None
    /\ payload = EmptyDict
    /\ endpoints = <<>>
    /\ idx = 0
    /\ last_error = NoError
    /\ resp = NoResp
    /\ origin = Unknown
    /\ content = <<>>
    /\ decodeLog = <<>>
    /\ net = <<>>
    /\ stdout = <<>>
    /\ stderr = <<>>
    /\ exit_code = -1
    /\ error = NoError

(* The responses the provider is taken to give in Spec. *)
HexAudio == <<"0", "a">>
UrlAudio == <<"h", ":", "a">>
SampleAudio ==
    {AudioAbsent, AudioOther, AudioStr(<<>>), AudioStr(HexAudio), AudioStr(UrlAudio),
     AudioStr(<<"h", "h", "=", "=">>), AudioStr(<<"h">>)}
SampleBases == {BaseAbsent, BaseNull, BaseNoCode, BaseCode(0), BaseCode(1004)}

SampleResponses ==
    {NonDictResp}
    \cup {Resp(BaseCode(0), a, "absent", "absent") : a \in SampleAudio}
    \cup {Resp(b, AudioStr(v), "absent", "absent") :
            b \in SampleBases, v \in {HexAudio, UrlAudio}}
    \cup {Resp(BaseCode(0), AudioStr(v), e, "trace") :
            v \in {HexAudio, UrlAudio}, e \in {"dict", "nondict"}}

SampleOutcomes == TransportFailures \cup {Returned(r, Unknown) : r \in SampleResponses}

Init == InitRun(CmdLines, Destinations)

Next ==
    \/ main_read_text
    \/ main_build_payload
    \/ call_minimaxi_begin
    \/ call_minimaxi_attempt(SampleOutcomes)
    \/ save_audio_check
    \/ save_audio_fetch
    \/ save_audio_write
    \/ main_report
    \/ main_except

Spec == Init /\ [][Next]_vars

(* main() is sequential and every network call is bounded by the timeout, *)
(* so a step that can be taken is taken.                                   *)
FairSpec == Spec /\ WF_vars(Next)

(***************************************************************************)
(* build_payload over every combination of the optional flags.             *)
(***************************************************************************)
FlagCmdLines ==
    {[BaseCli EXCEPT !.emotion = e, !.language_boost = l, !.pronunciation_tone = t,
                     !.voice_modify_pitch = vp, !.voice_modify_intensity = vi,
                     !.voice_modify_timbre = vt] :
        e \in Option({"", "happy"}, ""),
        l \in Option({"", "auto"}, ""),
        t \in SeqUpTo({"", "tone"}, MaxTones),
        vp \in Option({0, 1}, 0),
        vi \in Option({0, 1}, 0),
        vt \in Option({0, 1}, 0)}

InitPayload == InitRun(FlagCmdLines, {[dir |-> FALSE, file |-> NoFile]})

NextPayload ==
    \/ main_read_text
    \/ main_build_payload

SpecPayload == InitPayload /\ [][NextPayload]_vars

(***************************************************************************)
(* The decode path over every audio string of the alphabet, and over the   *)
(* hex encoding of every byte string.                                      *)
(***************************************************************************)
DecodeOutcomes ==
    {Returned(Resp(BaseCode(0), AudioStr(s), "absent", "absent"), Unknown) :
        s \in AudioStrings}
    \cup {Returned(Resp(BaseCode(0), AudioStr(hex(b)), "absent", "absent"), Known(b)) :
            b \in ByteStrings}

InitDecode == InitRun({BaseCli}, Destinations)

NextDecode ==
    \/ main_read_text
    \/ main_build_payload
    \/ call_minimaxi_begin
    \/ call_minimaxi_attempt(DecodeOutcomes)
    \/ save_audio_check
    \/ save_audio_fetch
    \/ save_audio_write
    \/ main_report
    \/ main_except

SpecDecode == InitDecode /\ [][NextDecode]_vars

(***************************************************************************)
(* Properties.                                                             *)
(***************************************************************************)
IsPost(n) == n.method = "POST"
IsGet(n) == n.method = "GET"
Finished == pc = "done"
Succeeded == pc = "done" /\ exit_code = 0
HexMode == cli.output_format = "hex"
UrlMode == cli.output_format = "url"

(* The provider's status code as the claims read it: the code, or 0 when *)
(* the response carries none.                                              *)
ProviderCode(r) == IF r.base_resp.has_code THEN r.base_resp.status_code ELSE 0

(* C1: when --text and --text-file are both given, or neither is, read_text *)
(* fails validation and the run ends with an error before any network call *)
(* is issued.  (The claim as stated; the code lets an empty value through.) *)
C1_BothOrNeitherRejected ==
    (cli.text.given = cli.text_file.given)
        => /\ net = <<>>
           /\ pc \in {"read_text", "except", "done"}
           /\ pc # "read_text" => error.kind = "exactly_one"
           /\ Finished => exit_code = 1

(* C2: a run that fails before the write step (non-zero status, missing    *)
(* audio field, failed decode, failed download) leaves the output file as  *)
(* it was: neither created nor modified.                                   *)
FailedBeforePersist ==
    error.kind \in {"status", "missing_audio", "decode", "download", "TypeError"}

C2_FailureLeavesFileUntouched ==
    FailedBeforePersist => fs.file = fs0.file

C2_Witness ==
    /\ Finished /\ exit_code = 1
    /\ error.kind = "decode"
    /\ ~fs0.dir /\ fs.dir
    /\ ~fs.file.exists

(* C3: when the POST to the primary fails in transport and a distinct      *)
(* backup is configured, the backup is tried; when the backup returns a    *)
(* valid success response, that response is what call_minimaxi returns,    *)
(* the run succeeds (local directory creation, download and write          *)
(* permitting), and the bytes written come from the backup's response.     *)
ValidSuccess(r) ==
    /\ r.kind = "dict"
    /\ r.base_resp.kind # "null"
    /\ ProviderCode(r) = 0
    /\ r.audio.kind = "str"
    /\ r.audio.val # <<>>
    /\ r.extra_info # "nondict"
    /\ HexMode => fromhex(r.audio.val).ok \/ b64decode(r.audio.val).ok
    /\ UrlMode => IsUrl(r.audio.val)

LocalIOFailed == error.kind \in {"mkdir", "download", "write"}

BytesOf(r) ==
    IF UrlMode THEN net[Len(net)].body
    ELSE IF fromhex(r.audio.val).ok THEN fromhex(r.audio.val).bytes
    ELSE b64decode(r.audio.val).bytes

BackupDistinct ==
    /\ cli.backup_endpoint \notin {"", cli.endpoint}
    /\ cli.backup_endpoint # MalformedEndpoint

ResultFields ==
    {"ok", "output_path", "voice_id", "model", "format", "bytes", "trace_id",
     "usage_characters"}

SuccessOutcome ==
    /\ exit_code = 0
    /\ Len(stdout) = 1
    /\ DOMAIN stdout[1] = ResultFields
    /\ stdout[1].ok
    /\ stderr = <<>>
    /\ error.kind = "none"
    /\ fs.file = File(content)
    /\ stdout[1].bytes = Len(content)

FailureOutcome ==
    /\ exit_code = 1
    /\ Len(stderr) = 1
    /\ DOMAIN stderr[1] = {"ok", "error"}
    /\ ~stderr[1].ok
    /\ stderr[1].error = error
    /\ error.kind # "none"
    /\ stdout = <<>>

C4_Outcome ==
    /\ ~Finished => stdout = <<>> /\ stderr = <<>> /\ exit_code = -1
    /\ Finished => (SuccessOutcome /\ ~FailureOutcome) \/ (FailureOutcome /\ ~SuccessOutcome)
    /\ pc = "except" => error.kind # "none"

C4_ExactlyOneOutcome == [](C4_Outcome) /\ <>Finished

C4_Witness ==
    /\ Finished /\ FailureOutcome
    /\ error = Exc("AttributeError", "extra_info")
    /\ fs.file = File(content)

(* C5: in hex mode the saved bytes are the hex decoding of the audio field *)
(* when it is valid hex (so the hex encoding of any bytes comes back as    *)
(* those bytes), and its base64 decoding when it is valid base64 but not   *)
(* valid hex; hex is tried first and base64 only after hex failed.         *)
Saved == pc = "report" \/ Succeeded

C5_HexThenBase64 ==
    LET a == resp.audio.val IN
    /\ (Saved /\ HexMode)
         => /\ fromhex(a).ok
                => fs.file = File(fromhex(a).bytes) /\ decodeLog = <<"hex">>
            /\ (~fromhex(a).ok /\ b64decode(a).ok)
                => fs.file = File(b64decode(a).bytes) /\ decodeLog = <<"hex", "base64">>
            /\ fromhex(a).ok \/ b64decode(a).ok
            /\ origin.known => fs.file = File(origin.bytes)
    /\ decodeLog # <<>>
         => /\ decodeLog[1] = "hex"
            /\ Len(decodeLog) > 1 => ~fromhex(a).ok
    /\ error.kind = "decode" => ~fromhex(a).ok /\ ~b64decode(a).ok

C5_Witness ==
    /\ Succeeded /\ HexMode
    /\ decodeLog = <<"hex", "base64">>
    /\ resp.audio.val = <<"h", "F", "=", "=">>
    /\ fs.file = File(<<132>>)

(* C6 as stated: the payload has model, text and voice_setting.voice_id,   *)
(* and has each optional field exactly when its flag was supplied.         *)
Built == pc = "call_minimaxi"
SuppliedVoiceModify ==
    (IF cli.voice_modify_pitch.given THEN {"pitch"} ELSE {})
    \cup (IF cli.voice_modify_intensity.given THEN {"intensity"} ELSE {})
    \cup (IF cli.voice_modify_timbre.given THEN {"timbre"} ELSE {})

MandatoryFields ==
    /\ {"model", "text", "voice_setting"} \subseteq DOMAIN payload
    /\ "voice_id" \in DOMAIN payload.voice_setting
    /\ payload.model = DEFAULT_MODEL
    /\ payload.text = text
    /\ payload.voice_setting.voice_id = cli.voice_id

ListAndBlockFields ==
    /\ "pronunciation_dict" \in DOMAIN payload <=> cli.pronunciation_tone # <<>>
    /\ "pronunciation_dict" \in DOMAIN payload
         => payload.pronunciation_dict = [tone |-> cli.pronunciation_tone]
    /\ "voice_modify" \in DOMAIN payload <=> SuppliedVoiceModify # {}
    /\ "voice_modify" \in DOMAIN payload
         => /\ DOMAIN payload.voice_modify = SuppliedVoiceModify
            /\ \A k \in SuppliedVoiceModify :
                 payload.voice_modify[k] =
                   CASE k = "pitch" -> cli.voice_modify_pitch.val
                     [] k = "intensity" -> cli.voice_modify_intensity.val
                     [] k = "timbre" -> cli.voice_modify_timbre.val

C6_OptionalIffSupplied ==
    Built
        => /\ MandatoryFields
           /\ ListAndBlockFields
           /\ "emotion" \in DOMAIN payload.voice_setting <=> cli.emotion.given
           /\ "language_boost" \in DOMAIN payload <=> cli.language_boost.given

(* C6 amended: emotion and language_boost are in the payload exactly when  *)
(* the flag was supplied with a non-empty value; the rest as stated.       *)
C6_OptionalIffSuppliedNonEmpty ==
    Built
        => /\ MandatoryFields
           /\ ListAndBlockFields
           /\ "emotion" \in DOMAIN payload.voice_setting
                <=> (cli.emotion.given /\ cli.emotion.val # "")
           /\ "emotion" \in DOMAIN payload.voice_setting
                => payload.voice_setting.emotion = cli.emotion.val
           /\ "language_boost" \in DOMAIN payload
                <=> (cli.language_boost.given /\ cli.language_boost.val # "")
           /\ "language_boost" \in DOMAIN payload
                => payload.language_boost = cli.language_boost.val

C6_Witness ==
    /\ Built
    /\ cli.emotion = NotGiven("")
    /\ cli.language_boost = Given("auto")
    /\ cli.pronunciation_tone = <<"">>
    /\ DOMAIN payload.voice_modify = {"pitch", "timbre"}
    /\ payload.voice_modify.pitch = 0
    /\ "emotion" \notin DOMAIN payload.voice_setting

(* C7: at most two POSTs, in order: the first to the primary, the second   *)
(* to a configured backup that differs from the primary and only after the *)
(* first failed; no POST after a successful one.  At most one GET, only in *)
(* url mode, right after the successful POST, and nothing follows it.      *)
C7_CallOrder ==
    /\ Len(net) <= 3
    /\ \A i \in 1..Len(net) :
         /\ IsPost(net[i])
              => /\ i <= 2
                 /\ i = 1 => net[i].url = cli.endpoint
                 /\ i = 2 => /\ net[i].url = cli.backup_endpoint
                             /\ cli.backup_endpoint # ""
                             /\ cli.backup_endpoint # cli.endpoint
                             /\ IsPost(net[1]) /\ ~net[1].ok
         /\ IsGet(net[i])
              => /\ i = Len(net)
                 /\ i >= 2
                 /\ IsPost(net[i - 1]) /\ net[i - 1].ok
                 /\ UrlMode
         /\ (IsPost(net[i]) /\ net[i].ok) => \A j \in (i + 1)..Len(net) : ~IsPost(net[j])

C7_Witness ==
    /\ Finished
    /\ Len(net) = 3
    /\ IsPost(net[1]) /\ ~net[1].ok
    /\ IsPost(net[2]) /\ net[2].ok
    /\ IsGet(net[3]) /\ ~net[3].ok

(* C8: no network call is issued unless the trimmed text is non-empty and  *)
(* a credential is present; a run whose text is empty after trimming, or   *)
(* that has no credential, ends in an error with no network call made and  *)
(* the destination untouched.                                              *)
EmptyAfterTrim == ~raw.none /\ strip(raw.val) = <<>>

C8_NoCallWithoutTextAndKey ==
    /\ net # <<>>
         => /\ text # <<>>
            /\ ~raw.none /\ text = strip(raw.val)
            /\ cli.api_key # ""
    /\ (EmptyAfterTrim \/ cli.api_key = "")
         => /\ net = <<>>
            /\ fs = fs0
            /\ pc \in {"read_text", "build_payload", "call_minimaxi", "except", "done"}
            /\ Finished => exit_code = 1
    /\ EmptyAfterTrim => error.kind = "empty_text"

C8_Witness ==
    /\ Finished /\ exit_code = 1
    /\ error.kind = "missing_api_key"
    /\ text = <<"a">>
    /\ raw = Some(<<" ", "a">>)
    /\ net = <<>>

(* C9: a parsed response that carries a non-zero status code, or no audio, *)
(* fails the run without another synthesis attempt: no POST follows it,    *)
(* the backup included, and no GET.                                        *)
ApplicationError(r) ==
    /\ r.kind = "dict"
    /\ r.base_resp.kind # "null"
    /\ ProviderCode(r) # 0 \/ r.audio.kind = "absent"
         \/ (r.audio.kind = "str" /\ r.audio.val = <<>>)

C9_ApplicationErrorNotRetried ==
    \A i \in 1..Len(net) :
        (IsPost(net[i]) /\ net[i].ok /\ ApplicationError(net[i].resp))
            => /\ i = Len(net)
               /\ resp = net[i].resp
               /\ pc \in {"save_audio", "except", "done"}
               /\ pc # "save_audio" => error.kind \in {"status", "missing_audio"}
               /\ Finished => exit_code = 1

C9_Witness ==
    /\ Finished
    /\ Len(net) = 1
    /\ net[1].ok /\ net[1].url = DEFAULT_ENDPOINT
    /\ ProviderCode(net[1].resp) = 1004
    /\ endpoints = <<DEFAULT_ENDPOINT, DEFAULT_BACKUP_ENDPOINT>>
    /\ exit_code = 1

(* C10: the run goes on to audio extraction, and may write the file, only  *)
(* with status code 0; a response with no status object, or a status       *)
(* object with no code, goes on exactly as one with code 0.                *)
PastStatusCheck ==
    pc \in {"save_fetch", "save_write", "report"} \/ fs # fs0 \/ Succeeded

NoStatusCode(r) ==
    r.kind = "dict" /\ r.base_resp.kind \in {"absent", "dict"} /\ ~r.base_resp.has_code

C10_OnlyStatusZeroProceeds ==
    /\ PastStatusCheck
         => /\ resp.kind = "dict"
            /\ resp.base_resp.has_code => resp.base_resp.status_code = 0
    /\ (resp.kind = "dict" /\ resp.base_resp.has_code /\ resp.base_resp.status_code # 0)
         => /\ pc \in {"save_audio", "except", "done"}
            /\ pc # "save_audio" => error.kind = "status"
    /\ NoStatusCode(resp)
         => /\ error.kind # "status"
            /\ (pc = "except" /\ HexMode /\ resp.audio = AudioStr(HexAudio))
                 => error.kind \in {"mkdir", "write"}

C10_Witness ==
    /\ Succeeded
    /\ resp.base_resp = BaseAbsent
    /\ fs.file = File(<<10>>)

====
